---- MODULE Spec2Model ----
(***************************************************************************)
(* The wormhole-ibc and wormchain-ibc-receiver CosmWasm contracts as a     *)
(* state machine of one contract instance.                                 *)
(*                                                                         *)
(* One call of an entry point is one atomic step (the host runs one call   *)
(* at a time and commits its writes only when the call returns Ok).  The   *)
(* variable `call` holds the call that has just completed (its request,    *)
(* its result, the storage it started from and the storage the handler    *)
(* had written when it returned) until the caller has taken the response   *)
(* (Return); the next call starts after that.                              *)
(*                                                                         *)
(* Rust Strings built from bytes (the registered address, port ids, the    *)
(* cw2 version string) are sequences of bytes, as in Rust; literals and    *)
(* Display renderings that end up in response attributes are TLA+ strings. *)
(***************************************************************************)
EXTENDS Integers, Sequences, FiniteSets, TLC

VARIABLES
    code,                         \* the contract code installed at this instance
    contract_info,                \* cw2 item "contract_info": name and version
    wormchain_ibc_receiver_addr,  \* wormhole-ibc item WORMCHAIN_IBC_RECEIVER_ADDR
    chain_connection,             \* receiver's registered counterparty address
    core_sequence,                \* core bridge state: messages posted so far
    registered,                   \* history: address bytes of the most recent Ok registration
    call                          \* the call just completed, or NoCall

vars == <<code, contract_info, wormchain_ibc_receiver_addr, chain_connection,
          core_sequence, registered, call>>

(***************************************************************************)
(* Bounds of the model.                                                    *)
(***************************************************************************)
\* Length of an address in bytes (32 in the SDK), scaled down.
AddrLen == 2
\* Longest channel list the runtime returns.
MaxChannels == 2
\* Largest number of messages the core bridge posts.
MaxSeq == 2
\* Longest batch of attestations.
MaxBatch == 3

(***************************************************************************)
(* Bytes, strings and numbers.                                             *)
(***************************************************************************)
\* The byte values addresses are built from: 'a', and the two bytes of the
\* two-byte UTF-8 encoding of U+00E9 (0xC3 0xA9), each invalid on its own.
ByteVals == {97, 195, 169}

Addrs == [1..AddrLen -> ByteVals]

IsCont(b) == b >= 128 /\ b <= 191

\* core::str::from_utf8's validation, as String::from_utf8 applies it.
RECURSIVE IsUtf8(_)
IsUtf8(bs) ==
    IF bs = <<>> THEN TRUE
    ELSE LET b == Head(bs)
             n == Len(bs)
             c(i) == IF i <= n THEN bs[i] ELSE 0
             rest(k) == SubSeq(bs, k + 1, n)
         IN  IF b < 128 THEN IsUtf8(rest(1))
             ELSE IF b >= 194 /\ b <= 223
                  THEN n >= 2 /\ IsCont(c(2)) /\ IsUtf8(rest(2))
             ELSE IF b >= 224 /\ b <= 239
                  THEN /\ n >= 3
                       /\ IF b = 224 THEN c(2) >= 160 /\ c(2) <= 191
                          ELSE IF b = 237 THEN c(2) >= 128 /\ c(2) <= 159
                          ELSE IsCont(c(2))
                       /\ IsCont(c(3))
                       /\ IsUtf8(rest(3))
             ELSE IF b >= 240 /\ b <= 244
                  THEN /\ n >= 4
                       /\ IF b = 240 THEN c(2) >= 144 /\ c(2) <= 191
                          ELSE IF b = 244 THEN c(2) >= 128 /\ c(2) <= 143
                          ELSE IsCont(c(2))
                       /\ IsCont(c(3))
                       /\ IsCont(c(4))
                       /\ IsUtf8(rest(4))
             ELSE FALSE

\* String::from_utf8(bytes): the same bytes as a String, or an error.
StringFromUtf8(bs) == [ok |-> IsUtf8(bs), string |-> IF IsUtf8(bs) THEN bs ELSE <<>>]

\* u64::to_string as bytes (decimal, no leading zeros).
RECURSIVE Dec(_)
Dec(n) == IF n < 10 THEN <<48 + n>> ELSE Dec(n \div 10) \o <<48 + (n % 10)>>

HexDigits == <<"0", "1", "2", "3", "4", "5", "6", "7",
               "8", "9", "a", "b", "c", "d", "e", "f">>

\* Display of wormhole_sdk::Address: two lower-case hex digits per byte.
RECURSIVE AddressToString(_)
AddressToString(bs) ==
    IF bs = <<>> THEN ""
    ELSE HexDigits[(Head(bs) \div 16) + 1] \o HexDigits[(Head(bs) % 16) + 1]
         \o AddressToString(Tail(bs))

\* The characters of the strings shown: digits, '.', '-', '+', 'r', 'c', 'a'.
Chr(b) ==
    IF b >= 48 /\ b <= 57 THEN ToString(b - 48)
    ELSE IF b = 46 THEN "."
    ELSE IF b = 45 THEN "-"
    ELSE IF b = 43 THEN "+"
    ELSE IF b = 114 THEN "r"
    ELSE IF b = 99 THEN "c"
    ELSE IF b = 97 THEN "a"
    ELSE "?"

RECURSIVE Show(_)
Show(bs) == IF bs = <<>> THEN "" ELSE Chr(Head(bs)) \o Show(Tail(bs))

(***************************************************************************)
(* semver::Version: parsing and ordering of                                *)
(* "major.minor.patch[-pre][+build]".  The order is the total order of     *)
(* the crate's Ord, in which build metadata takes part.                    *)
(***************************************************************************)
IsDigit(b) == b >= 48 /\ b <= 57

IsIdentChar(b) ==
    IsDigit(b) \/ (b >= 65 /\ b <= 90) \/ (b >= 97 /\ b <= 122) \/ b = 45

\* The longest prefix of bs made of digits.
RECURSIVE TakeDigits(_)
TakeDigits(bs) ==
    IF bs # <<>> /\ IsDigit(Head(bs)) THEN <<Head(bs)>> \o TakeDigits(Tail(bs))
    ELSE <<>>

RECURSIVE DigitsValue(_)
DigitsValue(ds) ==
    IF ds = <<>> THEN 0
    ELSE 10 * DigitsValue(SubSeq(ds, 1, Len(ds) - 1)) + (ds[Len(ds)] - 48)

\* A numeric identifier at the head of bs: digits, no leading zero.
ParseNum(bs) ==
    LET ds == TakeDigits(bs)
        good == Len(ds) >= 1 /\ (Len(ds) = 1 \/ ds[1] # 48)
    IN  [ok |-> good,
         value |-> IF good THEN DigitsValue(ds) ELSE 0,
         rest |-> SubSeq(bs, Len(ds) + 1, Len(bs))]

\* bs split at each '.' into identifiers.
RECURSIVE SplitDots(_)
SplitDots(bs) ==
    IF \A i \in 1..Len(bs) : bs[i] # 46 THEN <<bs>>
    ELSE LET k == CHOOSE i \in 1..Len(bs) :
                      bs[i] = 46 /\ \A j \in 1..(i - 1) : bs[j] # 46
         IN  <<SubSeq(bs, 1, k - 1)>> \o SplitDots(SubSeq(bs, k + 1, Len(bs)))

IsNumericIdent(id) == id # <<>> /\ \A i \in 1..Len(id) : IsDigit(id[i])

ValidPre(pre) ==
    \A k \in 1..Len(SplitDots(pre)) :
        LET id == SplitDots(pre)[k]
        IN  /\ id # <<>>
            /\ \A i \in 1..Len(id) : IsIdentChar(id[i])
            /\ IsNumericIdent(id) => (Len(id) = 1 \/ id[1] # 48)

\* A build metadata tag: identifiers of letters, digits and '-', none
\* empty; leading zeros are allowed.
ValidBuild(build) ==
    \A k \in 1..Len(SplitDots(build)) :
        LET id == SplitDots(build)[k]
        IN  /\ id # <<>>
            /\ \A i \in 1..Len(id) : IsIdentChar(id[i])

\* The text after the patch number, split at its first '+': the part
\* before it and, if there is a '+', the part after it.
SplitPlus(bs) ==
    IF \A i \in 1..Len(bs) : bs[i] # 43
    THEN [head |-> bs, plus |-> FALSE, build |-> <<>>]
    ELSE LET k == CHOOSE i \in 1..Len(bs) :
                      bs[i] = 43 /\ \A j \in 1..(i - 1) : bs[j] # 43
         IN  [head |-> SubSeq(bs, 1, k - 1), plus |-> TRUE,
              build |-> SubSeq(bs, k + 1, Len(bs))]

NoVersion == [major |-> 0, minor |-> 0, patch |-> 0, pre |-> <<>>, build |-> <<>>]

\* Version::parse(s)
VersionParse(s) ==
    LET bad == [ok |-> FALSE, v |-> NoVersion]
        a == ParseNum(s)
        b == ParseNum(Tail(a.rest))
        c == ParseNum(Tail(b.rest))
        t == SplitPlus(c.rest)
        good(pre, build) ==
            [ok |-> TRUE,
             v |-> [major |-> a.value, minor |-> b.value, patch |-> c.value,
                    pre |-> pre, build |-> build]]
    IN  IF ~a.ok \/ a.rest = <<>> \/ Head(a.rest) # 46 THEN bad
        ELSE IF ~b.ok \/ b.rest = <<>> \/ Head(b.rest) # 46 THEN bad
        ELSE IF ~c.ok THEN bad
        ELSE IF t.plus /\ ~ValidBuild(t.build) THEN bad
        ELSE IF t.head = <<>> THEN good(<<>>, t.build)
        ELSE IF Head(t.head) = 45 /\ ValidPre(Tail(t.head))
             THEN good(Tail(t.head), t.build)
        ELSE bad

\* Byte-wise lexicographic order: -1, 0 or 1.
RECURSIVE BytesCmp(_, _)
BytesCmp(x, y) ==
    IF x = <<>> /\ y = <<>> THEN 0
    ELSE IF x = <<>> THEN -1
    ELSE IF y = <<>> THEN 1
    ELSE IF Head(x) < Head(y) THEN -1
    ELSE IF Head(x) > Head(y) THEN 1
    ELSE BytesCmp(Tail(x), Tail(y))

\* Order of two pre-release identifiers.
IdentCmp(x, y) ==
    IF IsNumericIdent(x) /\ IsNumericIdent(y)
    THEN IF Len(x) < Len(y) THEN -1
         ELSE IF Len(x) > Len(y) THEN 1
         ELSE BytesCmp(x, y)
    ELSE IF IsNumericIdent(x) THEN -1
    ELSE IF IsNumericIdent(y) THEN 1
    ELSE BytesCmp(x, y)

RECURSIVE IdentsCmp(_, _)
IdentsCmp(xs, ys) ==
    IF xs = <<>> /\ ys = <<>> THEN 0
    ELSE IF xs = <<>> THEN -1
    ELSE IF ys = <<>> THEN 1
    ELSE IF IdentCmp(Head(xs), Head(ys)) # 0 THEN IdentCmp(Head(xs), Head(ys))
    ELSE IdentsCmp(Tail(xs), Tail(ys))

\* Order of two pre-release tags: a release (no tag) is above every tag.
PreCmp(p, q) ==
    IF p = <<>> /\ q = <<>> THEN 0
    ELSE IF p = <<>> THEN 1
    ELSE IF q = <<>> THEN -1
    ELSE IdentsCmp(SplitDots(p), SplitDots(q))

IsAllDigits(id) == \A i \in 1..Len(id) : IsDigit(id[i])

\* trim_start_matches('0')
RECURSIVE TrimZeros(_)
TrimZeros(id) ==
    IF id # <<>> /\ Head(id) = 48 THEN TrimZeros(Tail(id)) ELSE id

\* Order of two build identifiers: numbers by value and then by length
\* (0 < 00 < 1 < 01 < 2 < 10), a number below a word, words by their bytes.
BuildIdentCmp(x, y) ==
    IF IsAllDigits(x) /\ IsAllDigits(y)
    THEN LET lhval == TrimZeros(x)
             rhval == TrimZeros(y)
         IN  IF Len(lhval) # Len(rhval)
             THEN (IF Len(lhval) < Len(rhval) THEN -1 ELSE 1)
             ELSE IF BytesCmp(lhval, rhval) # 0 THEN BytesCmp(lhval, rhval)
             ELSE IF Len(x) # Len(y) THEN (IF Len(x) < Len(y) THEN -1 ELSE 1)
             ELSE 0
    ELSE IF IsAllDigits(x) THEN -1
    ELSE IF IsAllDigits(y) THEN 1
    ELSE BytesCmp(x, y)

RECURSIVE BuildIdentsCmp(_, _)
BuildIdentsCmp(xs, ys) ==
    IF xs = <<>> /\ ys = <<>> THEN 0
    ELSE IF xs = <<>> THEN -1
    ELSE IF ys = <<>> THEN 1
    ELSE IF BuildIdentCmp(Head(xs), Head(ys)) # 0
         THEN BuildIdentCmp(Head(xs), Head(ys))
    ELSE BuildIdentsCmp(Tail(xs), Tail(ys))

\* Ord for BuildMetadata: no build metadata is below every tag.
BuildCmp(p, q) == BuildIdentsCmp(SplitDots(p), SplitDots(q))

\* Ord for Version: -1, 0 or 1.
VersionCmp(x, y) ==
    IF x.major # y.major THEN (IF x.major < y.major THEN -1 ELSE 1)
    ELSE IF x.minor # y.minor THEN (IF x.minor < y.minor THEN -1 ELSE 1)
    ELSE IF x.patch # y.patch THEN (IF x.patch < y.patch THEN -1 ELSE 1)
    ELSE IF PreCmp(x.pre, y.pre) # 0 THEN PreCmp(x.pre, y.pre)
    ELSE BuildCmp(x.build, y.build)

\* A version gate that lets an equal version through.
VersionGt(saved_version, new_version) == VersionCmp(saved_version, new_version) > 0

\* A version check that lets every version through.
AnyVersion(saved_version, new_version) == FALSE

\* saved_version >= new_version
VersionGe(saved_version, new_version) == VersionCmp(saved_version, new_version) >= 0

(***************************************************************************)
(* The version strings tried.                                              *)
(***************************************************************************)
VersionString(v) ==
    Dec(v.major) \o <<46>> \o Dec(v.minor) \o <<46>> \o Dec(v.patch)
    \o (IF v.pre = <<>> THEN <<>> ELSE <<45>> \o v.pre)
    \o (IF v.build = <<>> THEN <<>> ELSE <<43>> \o v.build)

\* CARGO_PKG_VERSION of the builds tried: always a valid semantic version.
\* Minor 9 and 10 tell numeric from textual order; "rc" is a pre-release;
\* 1.9.0-rc+1, 1.9.0+2 and 1.9.0+10 carry build metadata.
VersionRecords ==
    {[major |-> ma, minor |-> mi, patch |-> pp[1], pre |-> pp[2], build |-> <<>>] :
        ma \in {0, 1}, mi \in {9, 10},
        pp \in {<<0, <<114, 99>>>>, <<0, <<>>>>, <<1, <<>>>>}}
    \cup
    {[major |-> 1, minor |-> 9, patch |-> 0, pre |-> pb[1], build |-> pb[2]] :
        pb \in {<<<<114, 99>>, <<49>>>>, <<<<>>, <<50>>>>, <<<<>>, <<49, 48>>>>}}

Versions == {VersionString(v) : v \in VersionRecords}

\* Version strings cw2 may hold that are no semantic version:
\* "1.9", "v1.9.0", "01.9.0", "1.9.0+".
MalformedVersions ==
    {<<49, 46, 57>>, <<118, 49, 46, 57, 46, 48>>, <<48, 49, 46, 57, 46, 48>>,
     <<49, 46, 57, 46, 48, 43>>}

(***************************************************************************)
(* Contract names, callers, persisted storage.                             *)
(***************************************************************************)
\* CONTRACT_NAME of the two crates, and the cw2 name of some other contract.
IbcName == "crates.io:wormhole-ibc"
ReceiverName == "crates.io:wormchain-ibc-receiver"
OtherName == "crates.io:other"

OurCodes == {"wormhole-ibc", "wormchain-ibc-receiver"}

CONTRACT_NAME(c) == IF c = "wormhole-ibc" THEN IbcName ELSE ReceiverName

Senders == {"alice", "bob"}

\* An absent storage item.
NoInfo == [present |-> FALSE, contract |-> "", version |-> <<>>]
NoAddr == [present |-> FALSE, string |-> <<>>]

\* Item::save of a String.
SomeAddr(str) == [present |-> TRUE, string |-> str]

\* The persisted state of the instance, as one record.
Store == [contract_info |-> contract_info,
          wormchain_ibc_receiver_addr |-> wormchain_ibc_receiver_addr,
          chain_connection |-> chain_connection,
          core_sequence |-> core_sequence]

\* cw2::set_contract_version(storage, name, version)
set_contract_version(st, name, version) ==
    [st EXCEPT !.contract_info =
        [present |-> TRUE, contract |-> name, version |-> version]]

(***************************************************************************)
(* Responses and results.                                                  *)
(***************************************************************************)
Attr(k, v) == [key |-> k, value |-> v]

\* Response::default() / Response::new()
EmptyResponse == [attributes |-> <<>>, events |-> <<>>, messages |-> <<>>]

\* An attribute put in front of the ones the response already has.
prepend_attribute(r, k, v) == [r EXCEPT !.attributes = <<Attr(k, v)>> \o @]

add_attribute(r, k, v) == [r EXCEPT !.attributes = Append(@, Attr(k, v))]

add_event(r, e) == [r EXCEPT !.events = Append(@, e)]

\* What an entry point returns, with the storage as the handler left it
\* (`written`) and the collaborators it called, in order (`steps`).
NoPacket == [built |-> FALSE]

Ok(response, written, steps) ==
    [ok |-> TRUE, err |-> "", arg |-> <<>>, response |-> response,
     written |-> written, steps |-> steps, packet |-> NoPacket]

Err(msg, arg, written, steps) ==
    [ok |-> FALSE, err |-> msg, arg |-> arg, response |-> EmptyResponse,
     written |-> written, steps |-> steps, packet |-> NoPacket]

\* The host's commit: the writes of a call that returned Ok are kept, those
\* of a call that returned an error are discarded.
Commit(before, res) == IF res.ok THEN res.written ELSE before

(***************************************************************************)
(* The core bridge (wormhole::contract), an external collaborator: each    *)
(* delegation succeeds or fails as the input `core_ok` says.               *)
(***************************************************************************)
CoreInstantiateResponse == add_attribute(EmptyResponse, "action", "core_instantiate")

CoreMigrateResponse == add_attribute(EmptyResponse, "action", "core_migrate")

CoreSubmitVAAResponse == add_attribute(EmptyResponse, "action", "core_submit_vaa")

\* The core bridge's response to PostMessage: it numbers the message.
CorePostMessageResponse(seq) ==
    add_attribute(
        add_attribute(EmptyResponse, "message.sender", "emitter"),
        "message.sequence", ToString(seq))

\* The core bridge's own write on a successful PostMessage.
CorePost(st) == [st EXCEPT !.core_sequence = @ + 1]

(***************************************************************************)
(* Version gate: instantiate and migrate of both contracts.                *)
(***************************************************************************)
\* A migrate that takes any stored name.
AnyContract(ver, name) == TRUE

\* ver.contract == CONTRACT_NAME: the stored record is of the same contract.
SameContract(ver, name) == ver.contract = name

\* wormhole-ibc instantiate, built with CONTRACT_VERSION = version.
instantiate_ibc(st, sender, version, core_ok) ==
    LET st1 == set_contract_version(st, IbcName, version)
    IN  IF core_ok
        THEN Ok(CoreInstantiateResponse, st1, <<"core_instantiate">>)
        ELSE Err("wormhole core instantiation failed", <<>>, st1,
                 <<"core_instantiate">>)

\* An instantiate that does not report the version it was built with.
instantiate_receiver_no_version(st, sender, version) ==
    LET st1 == set_contract_version(st, ReceiverName, version)
    IN  Ok(add_attribute(
               add_attribute(EmptyResponse, "action", "instantiate"),
               "owner", sender),
           st1, <<>>)

\* wormchain-ibc-receiver instantiate, built with CONTRACT_VERSION = version.
instantiate_receiver(st, sender, version) ==
    LET st1 == set_contract_version(st, ReceiverName, version)
    IN  Ok(add_attribute(
               add_attribute(
                   add_attribute(EmptyResponse, "action", "instantiate"),
                   "owner", sender),
               "version", Show(version)),
           st1, <<>>)

\* A migrate that runs the core bridge's migration before its own checks.
migrate_hook_first(st, version, core_ok) ==
    LET ver == st.contract_info
        saved_version == VersionParse(ver.version)
        new_version == VersionParse(version)
        hook == <<"core_migrate">>
    IN  IF ~core_ok THEN Err("wormhole core migration failed", <<>>, st, hook)
        ELSE IF ~ver.present THEN Err("contract_info not found", <<>>, st, hook)
        ELSE IF ~SameContract(ver, IbcName)
             THEN Err("Can only upgrade from same type", <<>>, st, hook)
        ELSE IF ~saved_version.ok \/ ~new_version.ok
             THEN Err("could not parse saved contract version", <<>>, st, hook)
        ELSE IF VersionGe(saved_version.v, new_version.v)
             THEN Err("Cannot upgrade from a newer version", <<>>, st, hook)
        ELSE Ok(CoreMigrateResponse, set_contract_version(st, IbcName, version), hook)

\* A migrate that reports success although the core bridge's migration
\* failed.
migrate_ignoring_hook_failure(st, version, core_ok) ==
    LET ver == st.contract_info
        saved_version == VersionParse(ver.version)
        new_version == VersionParse(version)
    IN  IF ~ver.present THEN Err("contract_info not found", <<>>, st, <<>>)
        ELSE IF ~SameContract(ver, IbcName)
             THEN Err("Can only upgrade from same type", <<>>, st, <<>>)
        ELSE IF ~saved_version.ok
             THEN Err("could not parse saved contract version", <<>>, st, <<>>)
        ELSE IF ~new_version.ok
             THEN Err("could not parse new contract version", <<>>, st, <<>>)
        ELSE IF VersionGe(saved_version.v, new_version.v)
             THEN Err("Cannot upgrade from a newer version", <<>>, st, <<>>)
        ELSE Ok(IF core_ok THEN CoreMigrateResponse ELSE EmptyResponse,
                set_contract_version(st, IbcName, version), <<"core_migrate">>)

\* wormhole-ibc migrate, built with CONTRACT_VERSION = version.
migrate_ibc(st, version, core_ok) ==
    LET ver == st.contract_info
        saved_version == VersionParse(ver.version)
        new_version == VersionParse(version)
    IN  IF ~ver.present THEN Err("contract_info not found", <<>>, st, <<>>)
        ELSE IF ~SameContract(ver, IbcName)
             THEN Err("Can only upgrade from same type", <<>>, st, <<>>)
        ELSE IF ~saved_version.ok
             THEN Err("could not parse saved contract version", <<>>, st, <<>>)
        ELSE IF ~new_version.ok
             THEN Err("could not parse new contract version", <<>>, st, <<>>)
        ELSE IF VersionGe(saved_version.v, new_version.v)
             THEN Err("Cannot upgrade from a newer version", <<>>, st, <<>>)
        ELSE LET st1 == set_contract_version(st, IbcName, version)
             IN  IF core_ok
                 THEN Ok(CoreMigrateResponse, st1, <<"core_migrate">>)
                 ELSE Err("wormhole core migration failed", <<>>, st1,
                          <<"core_migrate">>)

\* wormchain-ibc-receiver migrate, built with CONTRACT_VERSION = version.
migrate_receiver(st, version) ==
    LET ver == st.contract_info
        saved_version == VersionParse(ver.version)
        new_version == VersionParse(version)
    IN  IF ~ver.present THEN Err("contract_info not found", <<>>, st, <<>>)
        ELSE IF ~SameContract(ver, ReceiverName)
             THEN Err("Can only upgrade from same type", <<>>, st, <<>>)
        ELSE IF ~saved_version.ok
             THEN Err("could not parse saved contract version", <<>>, st, <<>>)
        ELSE IF ~new_version.ok
             THEN Err("could not parse new contract version", <<>>, st, <<>>)
        ELSE IF VersionGe(saved_version.v, new_version.v)
             THEN Err("Cannot upgrade from a newer or equal version", <<>>, st, <<>>)
        ELSE Ok(EmptyResponse, set_contract_version(st, ReceiverName, version), <<>>)

(***************************************************************************)
(* Governance handler of wormhole-ibc.                                     *)
(***************************************************************************)
\* Chain::from(u16) for the chain ids tried.
ChainFrom(n) ==
    IF n = 0 THEN "Any"
    ELSE IF n = 1 THEN "Solana"
    ELSE IF n = 2 THEN "Ethereum"
    ELSE IF n = 3104 THEN "Wormchain"
    ELSE "Unknown"

\* wormhole_sdk::GOVERNANCE_EMITTER: zeros, then 4.
GOVERNANCE_EMITTER == [i \in 1..AddrLen |-> IF i = AddrLen THEN 4 ELSE 0]

\* Some other emitter address.
OtherEmitter == [i \in 1..AddrLen |-> IF i = 1 THEN 4 ELSE 0]

\* An authority check that looks at the emitter chain only.
IsSolanaVAA(vaa) == ChainFrom(vaa.emitter_chain) = "Solana"

\* The attestation comes from the governance authority.
IsGovernanceVAA(vaa) ==
    /\ ChainFrom(vaa.emitter_chain) = "Solana"
    /\ vaa.emitter_address = GOVERNANCE_EMITTER

\* A handler that takes a packet for any target chain.
AnyTarget(govpacket) == TRUE

\* govpacket.chain == Chain::Any
TargetsAny(govpacket) == govpacket.chain = "Any"

\* A handler that registers the emitter of any chain.
AnyRegistration(chain) == TRUE

\* chain == Chain::Wormchain
IsWormchain(chain) == chain = "Wormchain"

\* A save that keeps an address already registered.
SaveIfAbsent(st, wormchain_addr) ==
    IF st.wormchain_ibc_receiver_addr.present THEN st
    ELSE [st EXCEPT !.wormchain_ibc_receiver_addr = SomeAddr(wormchain_addr)]

\* WORMCHAIN_IBC_RECEIVER_ADDR.save(deps.storage, &wormchain_ibc_receiver_addr)
SaveReceiverAddr(st, wormchain_addr) ==
    [st EXCEPT !.wormchain_ibc_receiver_addr = SomeAddr(wormchain_addr)]

\* A response that names no owner.
RegisterChainResponseNoOwner(sender, chain, emitter_address) ==
    add_event(
        add_attribute(EmptyResponse, "action", "submit_wormchain_receiver_update_vaa"),
        [type |-> "RegisterChain",
         attributes |-> <<Attr("chain", chain),
                          Attr("emitter_address", AddressToString(emitter_address))>>])

\* The event and the response of a registration.
RegisterChainResponse(sender, chain, emitter_address) ==
    add_event(
        add_attribute(
            add_attribute(EmptyResponse, "action", "submit_wormchain_receiver_update_vaa"),
            "owner", sender),
        [type |-> "RegisterChain",
         attributes |-> <<Attr("chain", chain),
                          Attr("emitter_address", AddressToString(emitter_address))>>])

\* A handler that looks at the action before the target chain.
handle_action_before_chain(st, sender, vaa) ==
    LET verify == <<"query_parse_and_verify_vaa">>
        govpacket == vaa.payload
        action == govpacket.action
        addr == StringFromUtf8(action.emitter_address)
    IN  IF ~vaa.verified THEN Err("vaa verification failed", <<>>, st, verify)
        ELSE IF ~IsGovernanceVAA(vaa)
             THEN Err("non governance vaa", <<>>, st, verify)
        ELSE IF ~govpacket.decodes
             THEN Err("failed to parse governance packet", <<>>, st, verify)
        ELSE IF action.type # "RegisterChain"
             THEN Err("unsupported governance action", <<>>, st, verify)
        ELSE IF ~TargetsAny(govpacket)
             THEN Err("this governance VAA is for another chain", <<>>, st, verify)
        ELSE IF ~IsWormchain(action.chain)
             THEN Err("non wormchain emitter registration", <<>>, st, verify)
        ELSE IF ~addr.ok
             THEN Err("failed to parse chain registration address", <<>>, st, verify)
        ELSE Ok(RegisterChainResponse(sender, action.chain, action.emitter_address),
                SaveReceiverAddr(st, addr.string),
                Append(verify, "save_wormchain_ibc_receiver_addr"))

handle_submit_wormchain_receiver_update_vaa(st, sender, vaa) ==
    LET verify == <<"query_parse_and_verify_vaa">>
        govpacket == vaa.payload
        action == govpacket.action
        addr == StringFromUtf8(action.emitter_address)
    IN  IF ~vaa.verified THEN Err("vaa verification failed", <<>>, st, verify)
        ELSE IF ~IsGovernanceVAA(vaa)
             THEN Err("non governance vaa", <<>>, st, verify)
        ELSE IF ~govpacket.decodes
             THEN Err("failed to parse governance packet", <<>>, st, verify)
        ELSE IF ~TargetsAny(govpacket)
             THEN Err("this governance VAA is for another chain", <<>>, st, verify)
        ELSE IF action.type # "RegisterChain"
             THEN Err("unsupported governance action", <<>>, st, verify)
        ELSE IF ~IsWormchain(action.chain)
             THEN Err("non wormchain emitter registration", <<>>, st, verify)
        ELSE IF ~addr.ok
             THEN Err("failed to parse chain registration address", <<>>, st, verify)
        ELSE Ok(RegisterChainResponse(sender, action.chain, action.emitter_address),
                SaveReceiverAddr(st, addr.string),
                Append(verify, "save_wormchain_ibc_receiver_addr"))

(***************************************************************************)
(* Channel resolver and message relay of wormhole-ibc.                     *)
(***************************************************************************)
\* "wasm."
WasmPrefix == <<119, 97, 115, 109, 46>>

\* format!("wasm.{wormchain_addr}")
WasmPort(wormchain_addr) == WasmPrefix \o wormchain_addr

\* crate::ibc::PACKET_LIFETIME, in seconds.
PACKET_LIFETIME == 31536000

\* A resolver that keeps scanning and returns the last matching channel.
RECURSIVE find_last_channel_id(_, _)
find_last_channel_id(channels, wormchain_addr) ==
    IF channels = <<>>
    THEN [ok |-> FALSE, channel_id |-> "",
          err |-> "no channel connecting to wormchain contract {wormchain_addr}",
          arg |-> wormchain_addr]
    ELSE IF channels[Len(channels)].port_id = WasmPort(wormchain_addr)
         THEN [ok |-> TRUE, channel_id |-> channels[Len(channels)].channel_id,
               err |-> "", arg |-> <<>>]
    ELSE find_last_channel_id(SubSeq(channels, 1, Len(channels) - 1), wormchain_addr)

\* A resolver that takes the first channel, whatever its counterparty port.
find_first_channel_id(channels, wormchain_addr) ==
    IF channels = <<>>
    THEN [ok |-> FALSE, channel_id |-> "",
          err |-> "no channel connecting to wormchain contract {wormchain_addr}",
          arg |-> wormchain_addr]
    ELSE [ok |-> TRUE, channel_id |-> Head(channels).channel_id,
          err |-> "", arg |-> <<>>]

RECURSIVE find_wormchain_channel_id(_, _)
find_wormchain_channel_id(channels, wormchain_addr) ==
    IF channels = <<>>
    THEN [ok |-> FALSE, channel_id |-> "",
          err |-> "no channel connecting to wormchain contract {wormchain_addr}",
          arg |-> wormchain_addr]
    ELSE IF Head(channels).port_id = WasmPort(wormchain_addr)
         THEN [ok |-> TRUE, channel_id |-> Head(channels).channel_id,
               err |-> "", arg |-> <<>>]
    ELSE find_wormchain_channel_id(Tail(channels), wormchain_addr)

\* A relay that posts to the core bridge before it looks for the channel.
post_message_core_first(st, env, query, core_ok) ==
    LET x == <<"core_execute">>
        q == Append(x, "list_channels")
        l == Append(q, "load_wormchain_ibc_receiver_addr")
        stored == st.wormchain_ibc_receiver_addr
        found == find_wormchain_channel_id(query.channels, stored.string)
    IN  IF ~core_ok THEN Err("wormhole core execution failed", <<>>, st, x)
        ELSE IF ~query.ok
             THEN Err("failed to query ibc channels", <<>>, CorePost(st), q)
        ELSE IF ~stored.present
             THEN Err("could not load wormchain_ibc_receiver_addr", <<>>,
                      CorePost(st), l)
        ELSE IF ~found.ok THEN Err(found.err, found.arg, CorePost(st), l)
        ELSE Ok(EmptyResponse, CorePost(st), l)

\* env: the block height, the block time (seconds) and the transaction
\* index, if the call runs in a transaction.  query: the runtime's answer to
\* IbcQuery::ListChannels.
post_message_ibc(st, env, query, core_ok) ==
    LET q == <<"list_channels">>
        l == Append(q, "load_wormchain_ibc_receiver_addr")
        x == Append(l, "core_execute")
        stored == st.wormchain_ibc_receiver_addr
        found == find_wormchain_channel_id(query.channels, stored.string)
        packet_timeout == env.time + PACKET_LIFETIME
        block_height == ToString(env.height)
        res == CorePostMessageResponse(st.core_sequence)
        res_with_tx_index ==
            IF env.tx.some
            THEN add_attribute(res, "message.tx_index", ToString(env.tx.index))
            ELSE res
        res_with_block_height ==
            add_attribute(res_with_tx_index, "message.block_height", block_height)
        send_packet ==
            [built |-> TRUE,
             channel_id |-> found.channel_id,
             data |-> [publish |-> res_with_block_height],
             timeout |-> packet_timeout]
    IN  IF ~query.ok THEN Err("failed to query ibc channels", <<>>, st, q)
        ELSE IF ~stored.present
             THEN Err("could not load wormchain_ibc_receiver_addr", <<>>, st, l)
        ELSE IF ~found.ok THEN Err(found.err, found.arg, st, l)
        ELSE IF ~core_ok
             THEN Err("wormhole core execution failed", <<>>, st, x)
        ELSE \* the SendPacket message is built and dropped: the response
             \* returned is Response::default()
             [Ok(EmptyResponse, CorePost(st), x) EXCEPT !.packet = send_packet]

\* execute's CoreExecuteMsg::SubmitVAA arm: the core bridge's own result.
core_submit_vaa(st, core_ok) ==
    IF core_ok THEN Ok(CoreSubmitVAAResponse, st, <<"core_execute">>)
    ELSE Err("failed core submit_vaa execution", <<>>, st, <<"core_execute">>)

\* A dispatch that sends every core message down the relay path.
execute_relay_all(st, env, sender, msg, ext) ==
    IF msg.type = "SubmitUpdateWormchainReceiverVAA"
    THEN handle_submit_wormchain_receiver_update_vaa(st, sender, msg.vaa)
    ELSE post_message_ibc(st, env, ext.query, ext.core_ok)

\* execute of wormhole-ibc: the match on ExecuteMsg.  ext holds what the
\* collaborators answer during the call.
execute(st, env, sender, msg, ext) ==
    IF msg.type = "SubmitUpdateWormchainReceiverVAA"
    THEN handle_submit_wormchain_receiver_update_vaa(st, sender, msg.vaa)
    ELSE IF msg.core_msg = "SubmitVAA"
         THEN core_submit_vaa(st, ext.core_ok)
    ELSE post_message_ibc(st, env, ext.query, ext.core_ok)

(***************************************************************************)
(* Batch submission of wormchain-ibc-receiver: the message is declared in  *)
(* msg.rs, its handler follows the governance handler's algorithm, one     *)
(* attestation after the other, stopping at the first failure.             *)
(***************************************************************************)
ApplyAttestation(st, vaa) ==
    LET packet == vaa.payload
        action == packet.action
        addr == StringFromUtf8(action.emitter_address)
        fail(e) == [ok |-> FALSE, err |-> e, st |-> st]
    IN  IF ~vaa.verified THEN fail("AttestationInvalid")
        ELSE IF ~IsGovernanceVAA(vaa) THEN fail("UntrustedEmitter")
        ELSE IF ~packet.decodes THEN fail("PayloadDecodeError")
        ELSE IF packet.chain # "Any" THEN fail("WrongTargetChain")
        ELSE IF action.type # "RegisterChain" THEN fail("UnsupportedGovernanceAction")
        ELSE IF action.chain # "Wormchain" THEN fail("WrongChainRegistration")
        ELSE IF ~addr.ok THEN fail("AddressDecodeError")
        ELSE [ok |-> TRUE, err |-> "",
              st |-> [st EXCEPT !.chain_connection = SomeAddr(addr.string)]]

\* A batch handler that passes over an attestation that fails and goes on
\* with the next one.
RECURSIVE ProcessBatchSkipping(_, _, _, _)
ProcessBatchSkipping(st, sender, vaas, k) ==
    IF k > Len(vaas)
    THEN Ok(add_attribute(
                add_attribute(EmptyResponse, "action", "submit_update_vaa"),
                "owner", sender),
            st, [i \in 1..Len(vaas) |-> "attestation"])
    ELSE LET one == ApplyAttestation(st, vaas[k])
         IN  ProcessBatchSkipping(IF one.ok THEN one.st ELSE st, sender, vaas, k + 1)

\* The attestations vaas[k..] applied in order to st; `steps` counts the
\* attestations processed.
RECURSIVE ProcessBatch(_, _, _, _)
ProcessBatch(st, sender, vaas, k) ==
    IF k > Len(vaas)
    THEN Ok(add_attribute(
                add_attribute(EmptyResponse, "action", "submit_update_vaa"),
                "owner", sender),
            st, [i \in 1..Len(vaas) |-> "attestation"])
    ELSE LET one == ApplyAttestation(st, vaas[k])
         IN  IF ~one.ok
             THEN Err(one.err, <<>>, st, [i \in 1..k |-> "attestation"])
             ELSE ProcessBatch(one.st, sender, vaas, k + 1)

submit_update_chain_connection(st, sender, vaas) ==
    ProcessBatch(st, sender, vaas, 1)

\* A query that never finds a connection.
query_no_connection(st, chain_id) ==
    [ok |-> FALSE, connection_id |-> <<>>, written |-> st]

\* QueryMsg::ChainConnection(u16) -> ChainConnectionResponse{connection_id}:
\* the registered counterparty address, read from the committed state.
query_chain_connection(st, chain_id) ==
    [ok |-> st.chain_connection.present,
     connection_id |-> st.chain_connection.string,
     written |-> st]

(***************************************************************************)
(* The requests tried.                                                     *)
(***************************************************************************)
ValidAddrs == {a \in Addrs : IsUtf8(a)}

ContractUpgrade == [type |-> "ContractUpgrade", chain |-> "Any", emitter_address |-> <<>>]

RegisterChain(chain, a) ==
    [type |-> "RegisterChain", chain |-> chain, emitter_address |-> a]

Actions ==
    {ContractUpgrade} \cup {RegisterChain(c, a) : c \in {"Wormchain", "Solana"}, a \in Addrs}

\* A payload serde_wormhole cannot decode.
Garbage == [decodes |-> FALSE, chain |-> "Any", action |-> ContractUpgrade]

Payloads ==
    {Garbage} \cup
    {[decodes |-> TRUE, chain |-> c, action |-> a] : c \in {"Any", "Solana"}, a \in Actions}

\* Bytes the attestation verifier rejects.
Unverified ==
    [verified |-> FALSE, emitter_chain |-> 0, emitter_address |-> <<>>,
     payload |-> Garbage]

VAA(ec, ea, p) ==
    [verified |-> TRUE, emitter_chain |-> ec, emitter_address |-> ea, payload |-> p]

VAAs ==
    {Unverified} \cup
    {VAA(e[1], e[2], p) :
        e \in {<<1, GOVERNANCE_EMITTER>>, <<1, OtherEmitter>>, <<2, GOVERNANCE_EMITTER>>},
        p \in Payloads}

\* A registration every check accepts.
GoodVAA(a) ==
    VAA(1, GOVERNANCE_EMITTER,
        [decodes |-> TRUE, chain |-> "Any", action |-> RegisterChain("Wormchain", a)])

\* The attestations batches are made of.
BatchVAAs ==
    {VAA(1, GOVERNANCE_EMITTER,
         [decodes |-> TRUE, chain |-> "Any",
          action |-> RegisterChain("Solana", [i \in 1..AddrLen |-> 97])])}
    \cup {GoodVAA(a) : a \in ValidAddrs}

Batches == UNION {[1..n -> BatchVAAs] : n \in 0..MaxBatch}

\* Counterparty port ids: "wasm.<addr>" of each valid address, an address
\* without the prefix, and a port with one more character.
AllA == [i \in 1..AddrLen |-> 97]

Ports ==
    {WasmPort(a) : a \in ValidAddrs} \cup {AllA, WasmPort(AllA) \o <<97>>}

\* The channel list of the runtime; channel ids are unique.
ChannelList(ports) ==
    [i \in 1..Len(ports) |->
        [channel_id |-> "channel-" \o ToString(i - 1), port_id |-> ports[i]]]

Queries ==
    {[ok |-> FALSE, channels |-> <<>>]} \cup
    {[ok |-> TRUE, channels |-> ChannelList(ps)] :
        ps \in UNION {[1..n -> Ports] : n \in 0..MaxChannels}}

NoTx == [some |-> FALSE, index |-> 0]
Tx(i) == [some |-> TRUE, index |-> i]

Envs ==
    {[height |-> 1, time |-> 1000, tx |-> NoTx],
     [height |-> 12, time |-> 2000, tx |-> Tx(3)]}

\* Chain identifiers asked for: Solana and Wormchain.
ChainIds == {1, 3104}

NoEnv == [height |-> 0, time |-> 0, tx |-> NoTx]
NoExt == [core_ok |-> TRUE, query |-> [ok |-> FALSE, channels |-> <<>>]]

(***************************************************************************)
(* The state machine.                                                      *)
(***************************************************************************)
NoCall == [op |-> "none"]

\* cw2 records left by the code that ran at this instance before.
ImportedInfos ==
    {NoInfo} \cup
    {[present |-> TRUE, contract |-> n, version |-> v] :
        n \in {IbcName, ReceiverName, OtherName},
        v \in Versions \cup MalformedVersions}

\* Either a fresh instance, not yet instantiated, or an instance that ran
\* other code so far and is about to be migrated.
Init ==
    /\ \/ code = "none" /\ contract_info = NoInfo
       \/ code = "other" /\ contract_info \in ImportedInfos
    /\ wormchain_ibc_receiver_addr = NoAddr
    /\ chain_connection = NoAddr
    /\ core_sequence = 0
    /\ registered = NoAddr
    /\ call = NoCall

\* The call's writes are committed or discarded.
Written(res) ==
    LET st == Commit(Store, res)
    IN  /\ contract_info' = st.contract_info
        /\ wormchain_ibc_receiver_addr' = st.wormchain_ibc_receiver_addr
        /\ chain_connection' = st.chain_connection
        /\ core_sequence' = st.core_sequence

\* The call's writes are committed or discarded, and the call is recorded.
Finish(op, c, req, res) ==
    /\ Written(res)
    /\ call' = [op |-> op, code |-> c, req |-> req, res |-> res, before |-> Store]

\* The migrate, if any, that succeeded right before this call.
PrevMigrate ==
    IF call.op = "migrate"
    THEN [op |-> "migrate", code |-> call.code, version |-> call.req.version]
    ELSE [op |-> "none", code |-> "", version |-> <<>>]

Instantiate(c, sender, version, core_ok) ==
    LET res == IF c = "wormhole-ibc"
               THEN instantiate_ibc(Store, sender, version, core_ok)
               ELSE instantiate_receiver(Store, sender, version)
    IN  /\ code = "none"
        /\ call = NoCall
        /\ Finish("instantiate", c,
                  [sender |-> sender, version |-> version, core_ok |-> core_ok], res)
        /\ code' = IF res.ok THEN c ELSE code
        /\ UNCHANGED registered

Migrate(c, version, core_ok) ==
    LET res == IF c = "wormhole-ibc"
               THEN migrate_ibc(Store, version, core_ok)
               ELSE migrate_receiver(Store, version)
    IN  /\ code # "none"
        /\ \/ call = NoCall
           \/ \* the same build is migrated to once more, right away
              /\ call.op = "migrate"
              /\ call.res.ok
              /\ call.code = c
              /\ call.req.version = version
        /\ Written(res)
        /\ call' = [op |-> "migrate", code |-> c,
                    req |-> [version |-> version, core_ok |-> core_ok],
                    res |-> res, before |-> Store, prev |-> PrevMigrate]
        /\ code' = IF res.ok THEN c ELSE code
        /\ UNCHANGED registered

SubmitUpdateWormchainReceiverVAA(sender, vaa) ==
    LET msg == [type |-> "SubmitUpdateWormchainReceiverVAA", vaa |-> vaa]
        res == execute(Store, NoEnv, sender, msg, NoExt)
    IN  /\ code = "wormhole-ibc"
        /\ call = NoCall
        /\ Finish("submit_update_wormchain_receiver_vaa", code,
                  [sender |-> sender, vaa |-> vaa], res)
        /\ registered' = IF res.ok
                         THEN [present |-> TRUE,
                               string |-> vaa.payload.action.emitter_address]
                         ELSE registered
        /\ UNCHANGED code

CoreSubmitVAA(sender, core_ok) ==
    LET msg == [type |-> "CoreExecuteMsg", core_msg |-> "SubmitVAA"]
        ext == [core_ok |-> core_ok, query |-> NoExt.query]
        res == execute(Store, NoEnv, sender, msg, ext)
    IN  /\ code = "wormhole-ibc"
        /\ call = NoCall
        /\ Finish("core_submit_vaa", code, [sender |-> sender, core_ok |-> core_ok], res)
        /\ UNCHANGED <<code, registered>>

PostMessage(sender, env, query, core_ok) ==
    LET msg == [type |-> "CoreExecuteMsg", core_msg |-> "PostMessage"]
        ext == [core_ok |-> core_ok, query |-> query]
        res == execute(Store, env, sender, msg, ext)
    IN  /\ code = "wormhole-ibc"
        /\ call = NoCall
        /\ core_sequence < MaxSeq
        /\ Finish("post_message", code,
                  [sender |-> sender, env |-> env, query |-> query,
                   core_ok |-> core_ok], res)
        /\ UNCHANGED <<code, registered>>

SubmitUpdateChainConnection(sender, vaas) ==
    LET res == submit_update_chain_connection(Store, sender, vaas)
    IN  /\ code = "wormchain-ibc-receiver"
        /\ call = NoCall
        /\ Finish("submit_update_chain_connection", code,
                  [sender |-> sender, vaas |-> vaas], res)
        /\ UNCHANGED <<code, registered>>

\* What the call before a query was: nothing, a batch submission or a query.
PrevCall ==
    [op |-> call.op,
     ok |-> IF call.op = "none" THEN TRUE ELSE call.res.ok,
     vaas |-> IF call.op = "submit_update_chain_connection"
              THEN call.req.vaas ELSE <<>>,
     connection_id |-> IF call.op = "query_chain_connection"
                       THEN call.res.connection_id ELSE <<>>,
     before |-> IF call.op = "none" THEN chain_connection
                ELSE call.before.chain_connection]

\* The query entry of wormchain-ibc-receiver, issued at any time between the
\* calls of the instance: right after a batch submission, after another
\* query, or later.
QueryChainConnection(chain_id) ==
    /\ code = "wormchain-ibc-receiver"
    /\ call.op \in {"none", "submit_update_chain_connection", "query_chain_connection"}
    /\ call' = [op |-> "query_chain_connection", code |-> code,
                req |-> [chain_id |-> chain_id],
                res |-> query_chain_connection(Store, chain_id),
                before |-> Store, prev |-> PrevCall]
    /\ UNCHANGED <<code, contract_info, wormchain_ibc_receiver_addr,
                   chain_connection, core_sequence, registered>>

\* The caller takes the response.
Return ==
    /\ call # NoCall
    /\ call' = NoCall
    /\ UNCHANGED <<code, contract_info, wormchain_ibc_receiver_addr,
                   chain_connection, core_sequence, registered>>

Next ==
    \/ \E c \in OurCodes, s \in Senders, v \in Versions, k \in BOOLEAN :
           Instantiate(c, s, v, k)
    \/ \E c \in OurCodes, v \in Versions, k \in BOOLEAN : Migrate(c, v, k)
    \/ \E s \in Senders, vaa \in VAAs : SubmitUpdateWormchainReceiverVAA(s, vaa)
    \/ \E s \in Senders, k \in BOOLEAN : CoreSubmitVAA(s, k)
    \/ \E e \in Envs, q \in Queries, k \in BOOLEAN :
           PostMessage("alice", e, q, k)
    \/ \E s \in Senders, vaas \in Batches : SubmitUpdateChainConnection(s, vaas)
    \/ \E id \in ChainIds : QueryChainConnection(id)
    \/ Return

Spec == Init /\ [][Next]_vars

(***************************************************************************)
(* The channel resolver on its own: the inputs are drawn at the start and  *)
(* the resolver is applied to them.                                        *)
(***************************************************************************)
ResolveAddrs == ValidAddrs \cup {<<>>, AllA \o <<97>>}

InitResolve ==
    /\ code = "none"
    /\ contract_info = NoInfo
    /\ wormchain_ibc_receiver_addr = NoAddr
    /\ chain_connection = NoAddr
    /\ core_sequence = 0
    /\ registered = NoAddr
    /\ \E q \in Queries, a \in ResolveAddrs :
           /\ q.ok
           /\ call = [op |-> "resolve_input",
                      req |-> [channels |-> q.channels, wormchain_addr |-> a]]

Resolve ==
    /\ call.op = "resolve_input"
    /\ call' = [op |-> "resolve", req |-> call.req,
                res |-> find_wormchain_channel_id(call.req.channels,
                                                  call.req.wormchain_addr),
                before |-> Store]
    /\ UNCHANGED <<code, contract_info, wormchain_ibc_receiver_addr,
                   chain_connection, core_sequence, registered>>

NextResolve == Resolve

SpecResolve == InitResolve /\ [][NextResolve]_vars

(***************************************************************************)
(* Properties.                                                             *)
(***************************************************************************)
GovCall == call.op = "submit_update_wormchain_receiver_vaa"
MigrateCall == call.op = "migrate"
PostCall == call.op = "post_message"
BatchCall == call.op = "submit_update_chain_connection"
ResolveCall == call.op = "resolve"

\* The attestation is from the governance authority: Solana (chain id 1)
\* and the governance emitter address.
FromAuthority(vaa) ==
    vaa.emitter_chain = 1 /\ vaa.emitter_address = GOVERNANCE_EMITTER

\* The attestation passes every check of the governance handler.
PassesAllChecks(vaa) ==
    /\ vaa.verified
    /\ FromAuthority(vaa)
    /\ vaa.payload.decodes
    /\ vaa.payload.chain = "Any"
    /\ vaa.payload.action.type = "RegisterChain"
    /\ vaa.payload.action.chain = "Wormchain"
    /\ IsUtf8(vaa.payload.action.emitter_address)

\* C1: a governance submission whose verified attestation is not from the
\* governance authority fails with "non governance vaa" (InvalidVAAType) and
\* leaves the registered address as it was, whatever its payload.
C1_UntrustedEmitterRejected ==
    (GovCall /\ call.req.vaa.verified /\ ~FromAuthority(call.req.vaa))
    => /\ ~call.res.ok
       /\ call.res.err = "non governance vaa"
       /\ wormchain_ibc_receiver_addr = call.before.wormchain_ibc_receiver_addr

\* An untrusted emitter carrying a registration that every later check
\* would accept, for an address other than the registered one, is rejected.
C1_Witness ==
    /\ GovCall
    /\ call.req.vaa.verified
    /\ call.req.vaa.emitter_chain = 1
    /\ call.req.vaa.emitter_address = OtherEmitter
    /\ call.req.vaa.payload =
           [decodes |-> TRUE, chain |-> "Any",
            action |-> RegisterChain("Wormchain", AllA)]
    /\ call.before.wormchain_ibc_receiver_addr.present
    /\ call.before.wormchain_ibc_receiver_addr.string # AllA
    /\ call.res.err = "non governance vaa"

C2_Inv ==
    /\ wormchain_ibc_receiver_addr = registered
    /\ (GovCall /\ call.res.ok) => PassesAllChecks(call.req.vaa)

C2_Step ==
    /\ wormchain_ibc_receiver_addr' # wormchain_ibc_receiver_addr
       => /\ call'.op = "submit_update_wormchain_receiver_vaa"
          /\ call'.res.ok
    /\ wormchain_ibc_receiver_addr.present => wormchain_ibc_receiver_addr'.present

\* C2: in every reachable state the registered address is absent (no
\* registration has succeeded) or the address of the most recent successful
\* submission, which passed every check; only a successful governance
\* submission changes it, and once present it stays present.
C2_RegisteredAddressOnlyByRegisterChain == [](C2_Inv) /\ [][C2_Step]_vars

\* A successful registration overwrites an address registered before.
C2_Witness ==
    /\ GovCall
    /\ call.res.ok
    /\ call.before.wormchain_ibc_receiver_addr.present
    /\ call.before.wormchain_ibc_receiver_addr # wormchain_ibc_receiver_addr
    /\ wormchain_ibc_receiver_addr.string = call.req.vaa.payload.action.emitter_address

\* The place of a version in semantic-version order, for the versions
\* tried (a pre-release is below its release).
\* The place of the build metadata tags tried: none, "1", "2", "10".
BuildRank(build) ==
    IF build = <<>> THEN 0
    ELSE IF build = <<49>> THEN 1
    ELSE IF build = <<50>> THEN 2
    ELSE 3

SemverRank(v) ==
    (((v.major * 100 + v.minor) * 100 + v.patch) * 2
        + (IF v.pre = <<>> THEN 1 ELSE 0)) * 4 + BuildRank(v.build)

NameMatches ==
    /\ call.before.contract_info.present
    /\ call.before.contract_info.contract = CONTRACT_NAME(call.code)

NotNewerError(c) ==
    IF c = "wormhole-ibc" THEN "Cannot upgrade from a newer version"
    ELSE "Cannot upgrade from a newer or equal version"

\* C3 as stated: with the stored name equal to the expected one, migrate
\* succeeds if and only if the target version is strictly greater than the
\* stored one, and a stored version that is equal or greater fails with
\* VersionNotNewer and leaves ContractVersion unchanged.
C3_Original ==
    (MigrateCall /\ NameMatches)
    => \A s, t \in VersionRecords :
           (/\ call.before.contract_info.version = VersionString(s)
            /\ call.req.version = VersionString(t))
           => /\ call.res.ok <=> SemverRank(t) > SemverRank(s)
              /\ SemverRank(t) <= SemverRank(s)
                 => /\ call.res.err = NotNewerError(call.code)
                    /\ contract_info = call.before.contract_info

\* C3, amended: with the stored name equal to the expected one, migrate
\* passes the version gate if and only if the target version is strictly
\* greater than the stored one in the order of semver::Version (major,
\* minor, patch, pre-release, then build metadata, so 1.9.0 is below
\* 1.9.0+2); the receiver's migrate then succeeds, and
\* wormhole-ibc's migrate succeeds if and only if the core bridge's migration
\* hook succeeds too.  A stored version that is equal or greater fails with
\* VersionNotNewer, and every failure leaves ContractVersion unchanged.
C3_MigrateIffNewerAndHookOk ==
    (MigrateCall /\ NameMatches)
    => \A s, t \in VersionRecords :
           (/\ call.before.contract_info.version = VersionString(s)
            /\ call.req.version = VersionString(t))
           => /\ call.res.ok <=>
                    /\ SemverRank(t) > SemverRank(s)
                    /\ call.code = "wormchain-ibc-receiver" \/ call.req.core_ok
              /\ SemverRank(t) <= SemverRank(s)
                 => call.res.err = NotNewerError(call.code)
              /\ (SemverRank(t) > SemverRank(s) /\ ~call.res.ok)
                 => call.res.err = "wormhole core migration failed"
              /\ ~call.res.ok => contract_info = call.before.contract_info
              /\ call.res.ok
                 => contract_info = [present |-> TRUE,
                                     contract |-> CONTRACT_NAME(call.code),
                                     version |-> call.req.version]

\* A migrate from 0.9.1 to 0.10.0 succeeds: 10 is above 9 as a number.
C3_Witness ==
    /\ MigrateCall
    /\ NameMatches
    /\ call.before.contract_info.version = <<48, 46, 57, 46, 49>>
    /\ call.req.version = <<48, 46, 49, 48, 46, 48>>
    /\ call.res.ok

\* C4: a migrate on a stored contract name other than the expected one
\* fails with "Can only upgrade from same type" (VersionMismatch) whatever
\* the stored version is, leaves ContractVersion unchanged and does not call
\* the core bridge's migration hook.
C4_NameMismatchRejected ==
    (/\ MigrateCall
     /\ call.before.contract_info.present
     /\ call.before.contract_info.contract # CONTRACT_NAME(call.code))
    => /\ ~call.res.ok
       /\ call.res.err = "Can only upgrade from same type"
       /\ contract_info = call.before.contract_info
       /\ \A i \in 1..Len(call.res.steps) : call.res.steps[i] # "core_migrate"

\* wormhole-ibc's migrate to 1.10.1 on a record of the receiver at 0.9.0:
\* the version alone would pass.
C4_Witness ==
    /\ MigrateCall
    /\ call.code = "wormhole-ibc"
    /\ call.req.core_ok
    /\ call.before.contract_info.contract = ReceiverName
    /\ call.before.contract_info.version = <<48, 46, 57, 46, 48>>
    /\ call.req.version = <<49, 46, 49, 48, 46, 49>>
    /\ call.res.err = "Can only upgrade from same type"

\* C5: a verified attestation from the governance authority whose payload
\* decodes with a target chain other than Any fails with "this governance
\* VAA is for another chain" (WrongTargetChain) and leaves the registered
\* address as it was, whatever the action.
C5_WrongTargetChainRejected ==
    (/\ GovCall
     /\ call.req.vaa.verified
     /\ FromAuthority(call.req.vaa)
     /\ call.req.vaa.payload.decodes
     /\ call.req.vaa.payload.chain # "Any")
    => /\ ~call.res.ok
       /\ call.res.err = "this governance VAA is for another chain"
       /\ wormchain_ibc_receiver_addr = call.before.wormchain_ibc_receiver_addr

\* A registration for Wormchain with a valid address, targeted at Solana.
C5_Witness ==
    /\ GovCall
    /\ call.req.vaa.verified
    /\ FromAuthority(call.req.vaa)
    /\ call.req.vaa.payload =
           [decodes |-> TRUE, chain |-> "Solana",
            action |-> RegisterChain("Wormchain", AllA)]
    /\ call.res.err = "this governance VAA is for another chain"

\* C6: a trusted submission targeted at Any whose action registers a chain
\* other than Wormchain fails with "non wormchain emitter registration"
\* (InvalidChainRegistration) and leaves the persisted storage as it was.
C6_WrongChainRegistrationRejected ==
    (/\ GovCall
     /\ call.req.vaa.verified
     /\ FromAuthority(call.req.vaa)
     /\ call.req.vaa.payload.decodes
     /\ call.req.vaa.payload.chain = "Any"
     /\ call.req.vaa.payload.action.type = "RegisterChain"
     /\ call.req.vaa.payload.action.chain # "Wormchain")
    => /\ ~call.res.ok
       /\ call.res.err = "non wormchain emitter registration"
       /\ Store = call.before

\* A registration of Solana's emitter with a valid address.
C6_Witness ==
    /\ GovCall
    /\ call.req.vaa = VAA(1, GOVERNANCE_EMITTER,
                          [decodes |-> TRUE, chain |-> "Any",
                           action |-> RegisterChain("Solana", AllA)])
    /\ call.res.err = "non wormchain emitter registration"
    /\ call.before.wormchain_ibc_receiver_addr.present

\* C7 as stated: a submission that passes every check sets the registered
\* address to the decoded address string and returns the attributes
\* action=submit_update_vaa and owner=<caller> and one event RegisterChain
\* with attributes chain and emitter_address, the latter equal to the
\* registered address string.
C7_Original ==
    (GovCall /\ PassesAllChecks(call.req.vaa))
    => /\ call.res.ok
       /\ wormchain_ibc_receiver_addr =
              SomeAddr(call.req.vaa.payload.action.emitter_address)
       /\ call.res.response.attributes =
              <<Attr("action", "submit_update_vaa"),
                Attr("owner", call.req.sender)>>
       /\ Len(call.res.response.events) = 1
       /\ call.res.response.events[1].type = "RegisterChain"
       /\ Len(call.res.response.events[1].attributes) = 2
       /\ call.res.response.events[1].attributes[1].key = "chain"
       /\ call.res.response.events[1].attributes[2] =
              Attr("emitter_address", Show(wormchain_ibc_receiver_addr.string))

\* C7, amended: a submission that passes every check sets the registered
\* address to the decoded address string, replacing any previous value, and
\* returns the attributes action=submit_wormchain_receiver_update_vaa and
\* owner=<caller>, no message, and one event RegisterChain with attributes
\* chain=Wormchain and emitter_address, the latter being the Display of the
\* action's address: the hex digits of its bytes.
C7_RegisterChainApplied ==
    (GovCall /\ PassesAllChecks(call.req.vaa))
    => /\ call.res.ok
       /\ wormchain_ibc_receiver_addr =
              SomeAddr(call.req.vaa.payload.action.emitter_address)
       /\ call.res.response.attributes =
              <<Attr("action", "submit_wormchain_receiver_update_vaa"),
                Attr("owner", call.req.sender)>>
       /\ call.res.response.messages = <<>>
       /\ call.res.response.events =
              <<[type |-> "RegisterChain",
                 attributes |->
                    <<Attr("chain", "Wormchain"),
                      Attr("emitter_address",
                           AddressToString(
                               call.req.vaa.payload.action.emitter_address))>>]>>

\* bob registers the address "aa" over another address: the event shows it
\* as "6161".
C7_Witness ==
    /\ GovCall
    /\ call.req.sender = "bob"
    /\ call.req.vaa = GoodVAA(AllA)
    /\ call.before.wormchain_ibc_receiver_addr.present
    /\ call.before.wormchain_ibc_receiver_addr.string # AllA
    /\ call.res.ok
    /\ AddrLen = 2 => call.res.response.events[1].attributes[2].value = "6161"

IsGoodVAA(vaa) == PassesAllChecks(vaa)

\* The index of the first attestation of the batch that fails, or 0.
FirstBad(vaas) ==
    IF \A i \in 1..Len(vaas) : IsGoodVAA(vaas[i]) THEN 0
    ELSE CHOOSE k \in 1..Len(vaas) :
             ~IsGoodVAA(vaas[k]) /\ \A j \in 1..(k - 1) : IsGoodVAA(vaas[j])

\* C8: a batch is processed in list order and is all-or-nothing: if the k-th
\* attestation is the first to fail, the handler stops there and returns an
\* error, having applied the k-1 attestations before it, and all persisted
\* state is as before the call; if none fails, the registered address is
\* that of the last attestation.
C8_BatchAllOrNothing ==
    BatchCall
    => LET vaas == call.req.vaas
           k == FirstBad(vaas)
       IN  IF k = 0
           THEN /\ call.res.ok
                /\ Len(call.res.steps) = Len(vaas)
                /\ chain_connection =
                       IF vaas = <<>> THEN call.before.chain_connection
                       ELSE SomeAddr(vaas[Len(vaas)].payload.action.emitter_address)
                /\ contract_info = call.before.contract_info
           ELSE /\ ~call.res.ok
                /\ Len(call.res.steps) = k
                /\ call.res.written.chain_connection =
                       IF k = 1 THEN call.before.chain_connection
                       ELSE SomeAddr(vaas[k - 1].payload.action.emitter_address)
                /\ Store = call.before

\* A batch of three whose first attestation registers a new address and
\* whose second fails: the address registered before the call is kept.
C8_Witness ==
    /\ BatchCall
    /\ Len(call.req.vaas) = 3
    /\ IsGoodVAA(call.req.vaas[1])
    /\ ~IsGoodVAA(call.req.vaas[2])
    /\ IsGoodVAA(call.req.vaas[3])
    /\ call.before.chain_connection.present
    /\ call.req.vaas[1].payload.action.emitter_address
           # call.before.chain_connection.string
    /\ chain_connection = call.before.chain_connection
    /\ ~call.res.ok

\* The channels of the list whose counterparty port is "wasm." followed by
\* the address.
Matching(channels, a) ==
    {i \in 1..Len(channels) : channels[i].port_id = WasmPrefix \o a}

\* C9: channel resolution returns the channel id of the first channel, in
\* list order, whose counterparty port is exactly "wasm." followed by the
\* address, and fails with the not-found error carrying the address if and
\* only if no channel of the list has that port; persisted state is as it
\* was.
C9_FirstMatchingChannel ==
    ResolveCall
    => LET channels == call.req.channels
           a == call.req.wormchain_addr
           m == Matching(channels, a)
       IN  /\ call.res.ok <=> m # {}
           /\ m # {}
              => \E i \in m :
                     /\ \A j \in m : i <= j
                     /\ call.res.channel_id = channels[i].channel_id
           /\ m = {}
              => /\ call.res.err =
                        "no channel connecting to wormchain contract {wormchain_addr}"
                 /\ call.res.arg = a
           /\ Store = call.before

\* Two channels match: the first is returned.
C9_Witness ==
    /\ ResolveCall
    /\ Cardinality(Matching(call.req.channels, call.req.wormchain_addr)) >= 2
    /\ call.res.ok
    /\ call.res.channel_id = "channel-0"

\* C10: a post-message call that succeeds returns exactly one outbound
\* packet Publish{msg: enriched core-bridge response} on the channel resolved
\* for the registered address, with timeout = block time + PACKET_LIFETIME.
C10_PacketSubmitted ==
    (PostCall /\ call.res.ok)
    => /\ Len(call.res.response.messages) = 1
       /\ call.res.response.messages[1].timeout =
              call.req.env.time + PACKET_LIFETIME
       /\ \E i \in Matching(call.req.query.channels,
                            call.before.wormchain_ibc_receiver_addr.string) :
              call.res.response.messages[1].channel_id =
                  call.req.query.channels[i].channel_id

InstantiateCall == call.op = "instantiate"
CoreSubmitCall == call.op = "core_submit_vaa"

\* An entry point of either contract was called and has returned.
EntryCall ==
    call.op \in {"instantiate", "migrate", "submit_update_wormchain_receiver_vaa",
                 "core_submit_vaa", "post_message", "submit_update_chain_connection"}

\* The cw2 record instantiate and migrate of contract c write when built
\* with the version given in the request.
TargetInfo ==
    [present |-> TRUE, contract |-> CONTRACT_NAME(call.code),
     version |-> call.req.version]

\* The three attributes of the receiver's instantiate response.
InstantiateAttributes ==
    <<Attr("action", "instantiate"), Attr("owner", call.req.sender),
      Attr("version", Show(call.req.version))>>

\* C12 as stated: every instantiate succeeds, stores the cw2 record and
\* returns exactly the attributes action, owner, version and no message.
C12_Original ==
    InstantiateCall
    => /\ call.res.ok
       /\ contract_info = TargetInfo
       /\ call.res.response.messages = <<>>
       /\ call.res.response.attributes = InstantiateAttributes

\* C12: instantiate of wormchain-ibc-receiver always succeeds, stores the
\* cw2 record {expected name, compiled-in version} and returns no message
\* and exactly the attributes action=instantiate, owner=<sender>,
\* version=<compiled-in version>; instantiate of wormhole-ibc writes the
\* same record and then returns the core bridge's instantiation result as it
\* is: its response on success, a failure (and no stored record) otherwise.
C12_InstantiateResponse ==
    InstantiateCall
    => /\ call.res.written.contract_info = TargetInfo
       /\ call.code = "wormchain-ibc-receiver"
          => /\ call.res.ok
             /\ contract_info = TargetInfo
             /\ call.res.response.messages = <<>>
             /\ call.res.response.events = <<>>
             /\ call.res.response.attributes = InstantiateAttributes
       /\ call.code = "wormhole-ibc"
          => /\ call.res.ok <=> call.req.core_ok
             /\ call.res.steps = <<"core_instantiate">>
             /\ call.res.ok
                => /\ contract_info = TargetInfo
                   /\ call.res.response = CoreInstantiateResponse
             /\ ~call.res.ok
                => /\ contract_info = call.before.contract_info
                   /\ call.res.err = "wormhole core instantiation failed"

\* The receiver was instantiated by bob with a pre-release version: the
\* record is stored and the response names bob and that version.
C12_Witness ==
    /\ InstantiateCall
    /\ call.code = "wormchain-ibc-receiver"
    /\ call.req.sender = "bob"
    /\ VersionParse(call.req.version).v.pre # <<>>
    /\ call.res.ok
    /\ contract_info = TargetInfo
    /\ ~call.before.contract_info.present
    /\ call.res.response.attributes = InstantiateAttributes

QueryCall == call.op = "query_chain_connection"

\* C13: a ChainConnection query leaves the persisted state as it was and
\* answers with the committed registered address: a query right after a
\* query gets the same answer, a query right after a batch that registered
\* addresses gets the last of them, and a query right after a failed batch
\* gets the address registered before that batch.
C13_QueryReflectsCommitted ==
    QueryCall
    => LET prev == call.prev
           last == prev.vaas[Len(prev.vaas)]
       IN  /\ Store = call.before
           /\ call.res.written = call.before
           /\ call.res.ok <=> chain_connection.present
           /\ call.res.connection_id = chain_connection.string
           /\ prev.op = "query_chain_connection"
              => /\ call.res.ok <=> prev.ok
                 /\ call.res.connection_id = prev.connection_id
           /\ (prev.op = "submit_update_chain_connection" /\ prev.ok
                   /\ prev.vaas # <<>>)
              => /\ call.res.ok
                 /\ call.res.connection_id = last.payload.action.emitter_address
           /\ (prev.op = "submit_update_chain_connection" /\ ~prev.ok)
              => /\ call.res.ok <=> prev.before.present
                 /\ call.res.connection_id = prev.before.string

\* A query right after a batch of two registrations that replaced an
\* earlier address answers with the second address of the batch.
C13_Witness ==
    /\ QueryCall
    /\ call.prev.op = "submit_update_chain_connection"
    /\ call.prev.ok
    /\ Len(call.prev.vaas) = 2
    /\ call.prev.before.present
    /\ call.res.ok
    /\ call.res.connection_id # call.prev.before.string
    /\ call.res.connection_id = call.prev.vaas[2].payload.action.emitter_address
    /\ call.res.connection_id # call.prev.vaas[1].payload.action.emitter_address

\* The channel of the request's list the registered address resolves to
\* exists: the query answered, an address is registered and a port matches.
ChannelResolves ==
    /\ call.req.query.ok
    /\ call.before.wormchain_ibc_receiver_addr.present
    /\ Matching(call.req.query.channels,
                call.before.wormchain_ibc_receiver_addr.string) # {}

\* C14 as stated: the core-bridge post comes first, so a post-message call
\* whose core-bridge post fails reports the core bridge's failure, and
\* nothing is queried or loaded before the post.
C14_Original ==
    (PostCall /\ ~call.req.core_ok)
    => /\ call.res.err = "wormhole core execution failed"
       /\ call.res.steps = <<"core_execute">>

\* C14: a post-message call queries the channel list, loads the registered
\* address and resolves the channel first, and posts to the core bridge
\* only after all three succeeded; a failure of the query, a missing address
\* or a missing channel is reported without the core bridge being called,
\* and the core bridge's failure is reported only once the channel resolved.
C14_ResolveBeforeCorePost ==
    PostCall
    => LET steps == call.res.steps
           order == <<"list_channels", "load_wormchain_ibc_receiver_addr",
                      "core_execute">>
       IN  /\ Len(steps) \in 1..3
           /\ steps = SubSeq(order, 1, Len(steps))
           /\ Len(steps) = 3 <=> ChannelResolves
           /\ ~call.req.query.ok
              => /\ steps = <<"list_channels">>
                 /\ call.res.err = "failed to query ibc channels"
           /\ (call.req.query.ok
                   /\ ~call.before.wormchain_ibc_receiver_addr.present)
              => call.res.err = "could not load wormchain_ibc_receiver_addr"
           /\ (call.req.query.ok
                   /\ call.before.wormchain_ibc_receiver_addr.present
                   /\ ~ChannelResolves)
              => call.res.err =
                     "no channel connecting to wormchain contract {wormchain_addr}"
           /\ ChannelResolves
              => /\ call.res.ok <=> call.req.core_ok
                 /\ ~call.req.core_ok
                    => call.res.err = "wormhole core execution failed"

\* The core bridge would have failed, but no address is registered: the
\* call reports the missing address and the core bridge was not called.
C14_Witness ==
    /\ PostCall
    /\ ~call.req.core_ok
    /\ call.req.query.ok
    /\ call.req.query.channels # <<>>
    /\ ~call.before.wormchain_ibc_receiver_addr.present
    /\ call.res.err = "could not load wormchain_ibc_receiver_addr"
    /\ call.res.steps = <<"list_channels", "load_wormchain_ibc_receiver_addr">>

\* C15: a post-message call made while no address is registered, or while
\* no channel of the list queried in this call has the counterparty port
\* "wasm." + registered address, fails: no packet is built or returned, the
\* core bridge is not called and the persisted state, the core bridge's
\* included, is as before.  Whether a call passes channel resolution depends
\* on the list queried in that call alone.
C15_NoCounterpartyFails ==
    PostCall
    => /\ ~ChannelResolves
          => /\ ~call.res.ok
             /\ call.res.response.messages = <<>>
             /\ ~call.res.packet.built
             /\ "core_execute" \notin {call.res.steps[i] :
                                           i \in 1..Len(call.res.steps)}
             /\ call.res.written = call.before
             /\ Store = call.before
       /\ (ChannelResolves /\ call.req.core_ok) => call.res.ok
       /\ call.res.steps[1] = "list_channels"

\* An earlier post-message succeeded (the core bridge numbered a message),
\* so a channel matched then; the list queried now has channels but none
\* for the registered address, and the call fails with everything as before.
C15_Witness ==
    /\ PostCall
    /\ call.before.core_sequence = 1
    /\ call.req.core_ok
    /\ call.req.query.ok
    /\ call.req.query.channels # <<>>
    /\ call.before.wormchain_ibc_receiver_addr.present
    /\ ~ChannelResolves
    /\ ~call.res.ok
    /\ call.res.arg = call.before.wormchain_ibc_receiver_addr.string
    /\ core_sequence = 1

\* The core bridge's response to the post of this call, and the response
\* the relay wrapped in the Publish packet it built.
CoreResponse == CorePostMessageResponse(call.before.core_sequence)
Enriched == call.res.packet.data.publish

\* C16 as stated: message.block_height is appended to the core bridge's
\* response first and message.tx_index, when the call runs in a
\* transaction, after it.
C16_Original ==
    (PostCall /\ call.res.ok /\ call.req.env.tx.some)
    => LET n == Len(CoreResponse.attributes)
       IN  /\ Len(Enriched.attributes) = n + 2
           /\ Enriched.attributes[n + 1].key = "message.block_height"
           /\ Enriched.attributes[n + 2].key = "message.tx_index"

\* C16: the response wrapped in the Publish packet is the core bridge's
\* response, its attributes and events kept in order, followed by
\* message.tx_index (the transaction index) if and only if the call runs in
\* a transaction, and then always by message.block_height (the block
\* height), which comes last.
C16_EnrichmentOrder ==
    (PostCall /\ call.res.ok)
    => LET n == Len(CoreResponse.attributes)
           env == call.req.env
           attrs == Enriched.attributes
           height == Attr("message.block_height", ToString(env.height))
           index == Attr("message.tx_index", ToString(env.tx.index))
       IN  /\ call.res.packet.built
           /\ SubSeq(attrs, 1, n) = CoreResponse.attributes
           /\ Enriched.events = CoreResponse.events
           /\ Enriched.messages = CoreResponse.messages
           /\ env.tx.some => attrs = CoreResponse.attributes \o <<index, height>>
           /\ ~env.tx.some => attrs = CoreResponse.attributes \o <<height>>

\* A post-message in a transaction (index 3, block 12) succeeded: the
\* enriched response ends with message.tx_index = 3, message.block_height
\* = 12, after the core bridge's two attributes.
C16_Witness ==
    /\ PostCall
    /\ call.res.ok
    /\ call.req.env.tx.some
    /\ Len(Enriched.attributes) = 4
    /\ Enriched.attributes[1].key = "message.sender"
    /\ Enriched.attributes[3] = Attr("message.tx_index", "3")
    /\ Enriched.attributes[4] = Attr("message.block_height", "12")

\* The migrate of this call passes the name check and the version check:
\* the stored name is the expected one and the target version is strictly
\* above the stored one.
PassesGate ==
    /\ NameMatches
    /\ \E s, t \in VersionRecords :
           /\ call.before.contract_info.version = VersionString(s)
           /\ call.req.version = VersionString(t)
           /\ SemverRank(t) > SemverRank(s)

\* C17 as stated: in either contract a migrate that passes the checks
\* writes the new cw2 record and then calls the core bridge's migration
\* hook once, returning the hook's result.
C17_Original ==
    (MigrateCall /\ PassesGate)
    => /\ call.res.written.contract_info = TargetInfo
       /\ call.res.steps = <<"core_migrate">>
       /\ call.res.ok <=> call.req.core_ok

\* C17: a migrate that passes the name and version checks writes the cw2
\* record {expected name, target version}; wormhole-ibc's migrate then calls
\* the core bridge's migration hook exactly once and returns its result
\* (its response, or the failure "wormhole core migration failed"), and
\* calls no hook when a check fails; wormchain-ibc-receiver's migrate calls
\* no hook at all and returns the empty response.
C17_MigrateHook ==
    MigrateCall
    => /\ call.res.written.contract_info =
              (IF PassesGate THEN TargetInfo ELSE call.before.contract_info)
       /\ call.code = "wormhole-ibc"
          => /\ call.res.steps = (IF PassesGate THEN <<"core_migrate">> ELSE <<>>)
             /\ PassesGate
                => /\ call.res.ok <=> call.req.core_ok
                   /\ call.res.ok => call.res.response = CoreMigrateResponse
                   /\ ~call.res.ok
                      => call.res.err = "wormhole core migration failed"
       /\ call.code = "wormchain-ibc-receiver"
          => /\ call.res.steps = <<>>
             /\ PassesGate
                => /\ call.res.ok
                   /\ call.res.response = EmptyResponse

\* wormhole-ibc's migrate passed the checks, wrote the new record and the
\* core bridge's migration succeeded: its response is returned.
C17_Witness ==
    /\ MigrateCall
    /\ call.code = "wormhole-ibc"
    /\ PassesGate
    /\ call.res.ok
    /\ call.res.steps = <<"core_migrate">>
    /\ call.res.response = CoreMigrateResponse
    /\ contract_info = TargetInfo
    /\ contract_info # call.before.contract_info

\* The seven checks of the governance handler on an attestation, in order,
\* and the error each reports.
GovChecks(vaa) ==
    <<vaa.verified,
      FromAuthority(vaa),
      vaa.payload.decodes,
      vaa.payload.chain = "Any",
      vaa.payload.action.type = "RegisterChain",
      vaa.payload.action.chain = "Wormchain",
      IsUtf8(vaa.payload.action.emitter_address)>>

GovErrors ==
    <<"vaa verification failed",
      "non governance vaa",
      "failed to parse governance packet",
      "this governance VAA is for another chain",
      "unsupported governance action",
      "non wormchain emitter registration",
      "failed to parse chain registration address">>

\* The checks the attestation fails.
FailedChecks(vaa) == {i \in 1..7 : ~GovChecks(vaa)[i]}

\* C18: the governance handler's result is decided by the first check, in
\* the order verification, emitter authority, payload decoding, target
\* chain, action variant, registered chain, address UTF-8, that the
\* attestation fails, whatever later checks it fails too; the registered
\* address is written only when it fails none.
C18_FirstFailingCheckDecides ==
    GovCall
    => LET vaa == call.req.vaa
           failed == FailedChecks(vaa)
           saved == "save_wormchain_ibc_receiver_addr" \in
                        {call.res.steps[i] : i \in 1..Len(call.res.steps)}
       IN  /\ call.res.ok <=> failed = {}
           /\ failed # {}
              => \E i \in failed :
                     /\ \A j \in failed : i <= j
                     /\ call.res.err = GovErrors[i]
           /\ saved <=> failed = {}
           /\ failed # {}
              => /\ call.res.written = call.before
                 /\ wormchain_ibc_receiver_addr =
                        call.before.wormchain_ibc_receiver_addr

\* A trusted attestation for another target chain whose action is not
\* RegisterChain either: the target chain's error is the one reported.
C18_Witness ==
    /\ GovCall
    /\ FailedChecks(call.req.vaa) \cap (1..5) = {4, 5}
    /\ call.res.err = "this governance VAA is for another chain"

\* A migrate to the version a migrate of the same contract has just
\* installed fails with the not-newer error.
C19_Inv ==
    (/\ MigrateCall
     /\ call.prev.op = "migrate"
     /\ call.prev.code = call.code
     /\ call.prev.version = call.req.version)
    => /\ ~call.res.ok
       /\ call.res.err = NotNewerError(call.code)
       /\ contract_info = call.before.contract_info

\* What one call may change: the cw2 record is first written by
\* instantiate and afterwards changed only by a successful migrate, to a
\* strictly greater version of the same contract name; no other call
\* changes it, and migrate changes no registered address.
C19_Step ==
    /\ contract_info' # contract_info
       => \/ /\ ~contract_info.present
             /\ call'.op = "instantiate"
             /\ call'.res.ok
          \/ /\ contract_info.present
             /\ call'.op = "migrate"
             /\ call'.res.ok
             /\ contract_info'.contract = contract_info.contract
             /\ \E s, t \in VersionRecords :
                    /\ contract_info.version = VersionString(s)
                    /\ contract_info'.version = VersionString(t)
                    /\ SemverRank(t) > SemverRank(s)
    /\ call'.op \in {"submit_update_wormchain_receiver_vaa", "core_submit_vaa",
                     "post_message", "submit_update_chain_connection",
                     "query_chain_connection"}
       => contract_info' = contract_info
    /\ call'.op = "migrate"
       => /\ wormchain_ibc_receiver_addr' = wormchain_ibc_receiver_addr
          /\ chain_connection' = chain_connection

\* C19: after instantiation the stored ContractVersion changes only in
\* successful migrate calls, each time to a strictly greater version (in
\* the order of semver::Version, build metadata included);
\* a second migrate to the same version right after a successful one fails
\* with the not-newer error; governance submissions, core pass-through
\* calls and post-message calls never change ContractVersion, and migrate
\* never changes the registered address.
C19_VersionOnlyByMigrate == [](C19_Inv) /\ [][C19_Step]_vars

\* wormhole-ibc was migrated to a version and is migrated to the same
\* version again, the core bridge willing: the second migrate is refused.
C19_Witness ==
    /\ MigrateCall
    /\ call.code = "wormhole-ibc"
    /\ call.prev.op = "migrate"
    /\ call.prev.code = "wormhole-ibc"
    /\ call.prev.version = call.req.version
    /\ call.req.core_ok
    /\ call.before.contract_info.version = call.req.version
    /\ call.res.err = "Cannot upgrade from a newer version"

\* The collaborators and storage items a call touched, in order.
StepSet == {call.res.steps[i] : i \in 1..Len(call.res.steps)}

\* C20: each execute message takes exactly one path.  A governance
\* submission goes to the governance handler only (the attestation verifier
\* is its first step; no channel query, no core-bridge execute); a SubmitVAA
\* pass-through is the core bridge's execute and nothing else: it succeeds
\* exactly when the core bridge does, whether or not an address is
\* registered, queries no channels, builds no packet and neither loads nor
\* saves the registered address; a PostMessage goes to the relay path only.
C20_DispatchDisjoint ==
    /\ GovCall
       => /\ call.res.steps[1] = "query_parse_and_verify_vaa"
          /\ StepSet \subseteq {"query_parse_and_verify_vaa",
                                "save_wormchain_ibc_receiver_addr"}
    /\ CoreSubmitCall
       => /\ call.res.ok <=> call.req.core_ok
          /\ call.res.steps = <<"core_execute">>
          /\ call.res.ok => call.res.response = CoreSubmitVAAResponse
          /\ ~call.res.ok => call.res.err = "failed core submit_vaa execution"
          /\ ~call.res.packet.built
          /\ call.res.response.messages = <<>>
          /\ call.res.written.wormchain_ibc_receiver_addr =
                 call.before.wormchain_ibc_receiver_addr
          /\ wormchain_ibc_receiver_addr = call.before.wormchain_ibc_receiver_addr
    /\ PostCall
       => /\ call.res.steps[1] = "list_channels"
          /\ StepSet \subseteq {"list_channels", "load_wormchain_ibc_receiver_addr",
                                "core_execute"}

\* A SubmitVAA pass-through succeeds with no address registered and no
\* channel list: the core bridge's response is what the caller gets.
C20_Witness ==
    /\ CoreSubmitCall
    /\ ~call.before.wormchain_ibc_receiver_addr.present
    /\ call.req.core_ok
    /\ call.res.ok
    /\ call.res.steps = <<"core_execute">>
    /\ call.res.response = CoreSubmitVAAResponse

\* Some step of the call fails on this request: a check of the handler, a
\* query, or a delegation to the core bridge that the handler reaches.
FailedStep ==
    \/ /\ InstantiateCall
       /\ call.code = "wormhole-ibc"
       /\ ~call.req.core_ok
    \/ /\ MigrateCall
       /\ ~PassesGate \/ (call.code = "wormhole-ibc" /\ ~call.req.core_ok)
    \/ GovCall /\ FailedChecks(call.req.vaa) # {}
    \/ CoreSubmitCall /\ ~call.req.core_ok
    \/ PostCall /\ (~ChannelResolves \/ ~call.req.core_ok)
    \/ BatchCall /\ FirstBad(call.req.vaas) # 0

\* The core bridge's delegation of an instantiate or migrate of wormhole-ibc
\* failed, after the handler had passed its own checks.
DelegationFailedAfterWrite ==
    /\ InstantiateCall \/ (MigrateCall /\ PassesGate)
    /\ call.code = "wormhole-ibc"
    /\ ~call.req.core_ok

====
